---- MODULE Spec2Model ----
(***************************************************************************)
(* A model of the mcp-screen-text server: the CallTool request handler of  *)
(* src/src/index.ts and the five operations of src/src/tools.ts.  Every    *)
(* `await` of the source is one step of a request; the synchronous code    *)
(* that follows it (up to the next `await`, a return or a throw that       *)
(* reaches the handler's catch) belongs to the same step.  Requests are    *)
(* served concurrently by the host, so the steps of different requests     *)
(* interleave; they share the file system, the clock that stamps file      *)
(* names and the desktop's frontmost application.                          *)
(***************************************************************************)
EXTENDS Integers, Sequences, FiniteSets, TLC

(* ---------------------------------------------------------------- bounds *)
\* Tool calls a host that waits for each answer issues in one behaviour.
MaxCalls == 1
\* Last value of the millisecond clock (it starts at 0).
MaxClock == 1

\* The host serves tool calls concurrently: two request slots.
Requests == {1, 2}

(* ------------------------------------------------------------ input sets *)
Formats == {"png", "jpg"}
Displays == {0, 1}
Apps == {"Safari", "Finder"}
\* names the host may send: "" is a present but empty application name
AppArgs == Apps \cup {""}

\* An optional argument: <<>> when absent, <<v>> when present.
Opt(S) == {<<>>} \cup {<<v>> : v \in S}

\* JavaScript's `(x as T) || d`: d when x is absent or falsy (0, "").
OrDefaultNum(opt, d) == IF opt = <<>> \/ opt[1] = 0 THEN d ELSE opt[1]
OrDefaultStr(opt, d) == IF opt = <<>> \/ opt[1] = "" THEN d ELSE opt[1]
\* `x as string | undefined`, later tested for truthiness: "" stands for both
\* undefined and the empty string, which JavaScript treats alike in `if (x)`.
Truthy(opt) == opt # <<>> /\ opt[1] # ""
StrOrEmpty(opt) == IF opt = <<>> THEN "" ELSE opt[1]

(* ------------------------------------------------------------ file names *)
\* a file name that leaves the display out: `screenshot`
DisplayContextUnnamed(d) == "screenshot"

\* `screenshot-display-${display}`
DisplayContext(d) ==
  CASE d = 0 -> "screenshot-display-0"
    [] d = 1 -> "screenshot-display-1"
    [] OTHER -> "screenshot-display-n"

\* path.join(screenshotsFolder, `${context}-${timestamp}.${format}`)
FilePath(context, timestamp, format) ==
  [context |-> context, timestamp |-> timestamp, ext |-> format]

NoPath == [context |-> "", timestamp |-> 0, ext |-> ""]
\* image paths a caller may name that this server never wrote: a file the
\* user keeps on disk, and a path that holds no file
UserPath == [context |-> "user-image", timestamp |-> 0, ext |-> "png"]
MissingPath == [context |-> "missing", timestamp |-> 0, ext |-> "png"]

(* ---------------------------------------------------------------- images *)
\* An image is three bytes: the magic byte of its encoding, the byte naming
\* what the pixels show, the byte naming the capture that took them.
Magic(format) == IF format = "jpg" THEN 255 ELSE 137
IsImage(b) == Len(b) = 3 /\ b[1] \in {Magic("png"), Magic("jpg")}

DisplayByte(d) == d
WindowByte(app) == IF app = "Safari" THEN 16 ELSE 17

\* screenshot({ screen, format }): the pixels of a display
ScreenshotBytes(d, format, r) == <<Magic(format), DisplayByte(d), r>>
\* screencapture -o -w: the pixels of the frontmost window, as png
WindowBytes(app, r) == <<Magic("png"), WindowByte(app), r>>

\* the image the user keeps on disk
UserImage == <<Magic("png"), 32, 0>>

\* sharp(imageBuffer).jpeg({ quality: 90 }) / sharp(imageBuffer).png()
SharpEncode(imageBuffer, format) ==
  <<Magic(format), imageBuffer[2], imageBuffer[3]>>

\* sharp(imageBuffer).greyscale().normalize().sharpen(): same encoding,
\* pixels transformed
SharpPreprocess(imageBuffer) ==
  <<imageBuffer[1], (imageBuffer[2] + 128) % 256, imageBuffer[3]>>

(* ---------------------------------------------------------------- base64 *)
\* Buffer.toString("base64"): 3 bytes become 4 sextets, 64 is the pad '='.
RECURSIVE Base64Encode(_)
Base64Encode(b) ==
  IF Len(b) = 0 THEN <<>>
  ELSE IF Len(b) = 1 THEN
    <<b[1] \div 4, (b[1] % 4) * 16, 64, 64>>
  ELSE IF Len(b) = 2 THEN
    <<b[1] \div 4, (b[1] % 4) * 16 + b[2] \div 16, (b[2] % 16) * 4, 64>>
  ELSE
    <<b[1] \div 4, (b[1] % 4) * 16 + b[2] \div 16,
      (b[2] % 16) * 4 + b[3] \div 64, b[3] % 64>>
    \o Base64Encode(SubSeq(b, 4, Len(b)))

\* the decoding a client applies to the image payload
RECURSIVE Base64Decode(_)
Base64Decode(t) ==
  IF Len(t) < 4 THEN <<>>
  ELSE
    LET b1 == t[1] * 4 + t[2] \div 16
        b2 == (t[2] % 16) * 16 + t[3] \div 4
        b3 == (t[3] % 4) * 64 + t[4]
        rest == Base64Decode(SubSeq(t, 5, Len(t)))
    IN IF t[3] = 64 THEN <<b1>>
       ELSE IF t[4] = 64 THEN <<b1, b2>>
       ELSE <<b1, b2, b3>> \o rest

(* ---------------------------------------------------------------- errors *)
\* new Error(`${context}: ${error.message}`): a message is the sequence of
\* its parts, outermost first.
Wrap(context, message) == <<context>> \o message

(* ----------------------------------------------------------------- state *)
VARIABLES
  rq,         \* rq[r]: the call request slot r is serving, with its locals
  fs,         \* the files on disk: file path -> bytes
  clock,      \* the millisecond new Date() gave when it was last read
  frontmost,  \* the application whose window is frontmost on the desktop
  calls,      \* tool calls issued so far
  errors,     \* error responses the host has received
  host        \* whether the host overlaps its calls

vars == <<rq, fs, clock, frontmost, calls, errors, host>>

\* ScreenshotResult { path, base64, buffer }
NoResult == [path |-> NoPath, base64 |-> <<>>, buffer |-> <<>>]

\* the value the handler returns
NoResponse ==
  [isError |-> FALSE, text |-> <<>>, body |-> <<>>, path |-> NoPath,
   data |-> <<>>, mimeType |-> ""]

Idle ==
  [pc |-> "idle", tool |-> "",
   \* the handler's locals
   argDisplay |-> 0, argFormat |-> "", argApp |-> "", imagePath |-> NoPath,
   \* the locals of captureScreen / captureApplicationScreen
   display |-> 0, format |-> "", applicationName |-> "",
   fallback |-> "none", script |-> "", filepath |-> NoPath,
   imageBuffer |-> <<>>, processedBuffer |-> <<>>,
   screenshot |-> NoResult,
   \* the locals of extractTextFromImage
   worker |-> FALSE, input |-> <<>>, pending |-> <<>>, text |-> <<>>,
   \* the locals of getRunningApplications, and what the OS query reported
   applications |-> <<>>, reported |-> <<>>,
   thrown |-> <<>>, resp |-> NoResponse,
   \* history of the call: the steps attempted, the steps that failed, the
   \* displays captured, the paths written, the engines acquired and released
   io |-> {}, failed |-> {}, shots |-> {}, wrote |-> {},
   acquired |-> 0, released |-> 0]

Init ==
  /\ rq = [r \in Requests |-> Idle]
  /\ fs = [p \in {UserPath} |-> UserImage]
  /\ clock = 0
  /\ frontmost = "Finder"
  /\ calls = 0
  /\ errors = 0
  /\ host \in {"serial", "concurrent"}

\* new Date(): the clock never runs backwards, and any number of
\* milliseconds may have passed since it was last read
Now == clock..MaxClock

Write(files, path, bytes) ==
  [q \in DOMAIN files \cup {path} |-> IF q = path THEN bytes ELSE files[q]]

\* the step the request is at has failed: its await rejected
Failed(s) == [s EXCEPT !.failed = @ \cup {s.pc}]

(* --------------------------------------------------- the handler's catch *)
\* a catch that answers with the message but leaves the error flag unset
HandlerCatchUnflagged(name, errorMessage) ==
  [NoResponse EXCEPT !.text = <<"Error executing tool", name>> \o errorMessage]

\* index.ts 289-303: the error response
HandlerCatch(name, errorMessage) ==
  [NoResponse EXCEPT !.isError = TRUE,
                     !.text = <<"Error executing tool", name>> \o errorMessage]

\* The handler returns: the frames of the call are gone, and what stays is
\* the response, with the call's arguments and history.
Finish(s, response) ==
  [Idle EXCEPT !.pc = "done", !.tool = s.tool, !.argDisplay = s.argDisplay,
               !.argFormat = s.argFormat, !.argApp = s.argApp,
               !.imagePath = s.imagePath, !.fallback = s.fallback,
               !.thrown = s.thrown,
               !.screenshot = s.screenshot, !.input = s.input,
               !.applications = s.applications, !.reported = s.reported,
               !.resp = response,
               !.io = s.io, !.failed = s.failed, !.shots = s.shots,
               !.wrote = s.wrote,
               !.acquired = s.acquired, !.released = s.released]

\* a throw that reaches the handler's catch
Fail(s, errorMessage) ==
  Finish([s EXCEPT !.thrown = errorMessage], HandlerCatch(s.tool, errorMessage))

\* `image/${format}`
Mime(format) == IF format = "jpg" THEN "image/jpg" ELSE "image/png"

\* index.ts 160-172: the response of capture_screen
CaptureScreenResponse(s, result) ==
  [NoResponse EXCEPT !.text = <<"Screenshot captured successfully!">>,
                     !.path = result.path, !.data = result.base64,
                     !.mimeType = Mime(s.argFormat)]

\* index.ts 192-204: the response of capture_application_screen
CaptureApplicationScreenResponse(s, result) ==
  [NoResponse EXCEPT !.text = <<"Application screenshot captured successfully!">>,
                     !.path = result.path, !.data = result.base64,
                     !.mimeType = Mime(s.argFormat)]

(* ------------------------------------------------- captureScreen's entry *)
\* tools.ts 222-225: captureApplicationScreen(applicationName, format)
CaptureApplicationScreenEntry(s, applicationName, format) ==
  [s EXCEPT !.pc = "app_mkdir", !.applicationName = applicationName,
            !.format = format]

\* tools.ts 26-31: an application name sends the call to the application
\* path; otherwise a frame of captureScreen starts, with fresh locals
CaptureScreenEntry(s, display, format, applicationName) ==
  IF applicationName # ""
  THEN CaptureApplicationScreenEntry(s, applicationName, format)
  ELSE [s EXCEPT !.pc = "screenshot", !.display = display, !.format = format,
                 !.filepath = NoPath, !.imageBuffer = <<>>,
                 !.processedBuffer = <<>>]

\* the fallback called outside captureApplicationScreen's try block: its
\* error would reach the handler without the outer context
CaptureScreenCatchOutsideTry(s, error) ==
  Fail(s, Wrap("Failed to capture screen", error))

\* tools.ts 63-69, and 298-304 when captureScreen runs as the fallback
CaptureScreenCatch(s, error) ==
  LET message == Wrap("Failed to capture screen", error)
  IN Fail(s, IF s.fallback # "none"
             THEN Wrap("Failed to capture application screen", message)
             ELSE message)

\* an outer catch that falls back to the full screen as the inner one does
CaptureApplicationScreenCatchFallingBack(s, error) ==
  CaptureScreenEntry([s EXCEPT !.fallback = "other", !.script = ""],
                     0, s.format, "")

\* tools.ts 298-304
CaptureApplicationScreenCatch(s, error) ==
  Fail(s, Wrap("Failed to capture application screen", error))

\* tools.ts 160-174: createScreenshotsFolder's failure
CreateScreenshotsFolderError ==
  Wrap("Failed to create screenshots folder", <<"EACCES">>)

\* The caller's continuation when a capture returns its ScreenshotResult:
\* index.ts 158-172, 187-204, or tools.ts 141.
CaptureReturn(s, result) ==
  LET t == [s EXCEPT !.screenshot = result, !.script = ""]
  IN CASE s.tool = "capture_screen" ->
            Finish(t, CaptureScreenResponse(s, result))
       [] s.tool = "capture_application_screen" ->
            Finish(t, CaptureApplicationScreenResponse(s, result))
       [] OTHER ->
            [t EXCEPT !.pc = "createWorker", !.input = result.buffer]

(* ------------------------------------------------------- the tool calls *)
\* How the host issues calls.  A serial host sends a call when the last one
\* has been answered, MaxCalls calls in all, of any tool.  A concurrent host
\* sends one call per slot without waiting; the calls it overlaps are those
\* of the two capture tools, whose steps share the folder, the clock and
\* the desktop.  The slots are interchangeable: a call takes the lowest
\* idle one.
CanCall(r) ==
  /\ rq[r].pc = "idle"
  /\ host = "serial"
  /\ calls < MaxCalls
  /\ \A q \in Requests : rq[q].pc = "idle"

CanCallCapture(r) ==
  \/ CanCall(r)
  \/ /\ rq[r].pc = "idle"
     /\ host = "concurrent"
     /\ calls < Cardinality(Requests)
     /\ \A q \in Requests : q < r => rq[q].pc # "idle"

\* index.ts 150-158
CallCaptureScreen(r) ==
  /\ CanCallCapture(r)
  /\ \E display \in Opt(Displays), format \in Opt(Formats) :
       LET d == OrDefaultNum(display, 0)
           f == OrDefaultStr(format, "png")
           s == [Idle EXCEPT !.tool = "capture_screen",
                             !.argDisplay = d, !.argFormat = f]
       IN rq' = [rq EXCEPT ![r] = CaptureScreenEntry(s, d, f, "")]
  /\ calls' = calls + 1
  /\ UNCHANGED <<fs, clock, frontmost, errors, host>>

(* ----------------------------------------------------- captureScreen *)
\* tools.ts 34: screenshot({ screen: display, format })
Screenshot(r) ==
  LET s == [rq[r] EXCEPT !.io = @ \cup {"screenshot"},
                         !.shots = @ \cup {rq[r].display}]
  IN /\ rq[r].pc = "screenshot"
     /\ \E ok \in BOOLEAN :
          rq' = [rq EXCEPT ![r] =
                   IF ok
                   THEN [s EXCEPT !.pc = "sharp",
                                  !.imageBuffer =
                                     ScreenshotBytes(s.display, s.format, r)]
                   ELSE CaptureScreenCatch(Failed(s), <<"screenshot failed">>)]
     /\ UNCHANGED <<fs, clock, frontmost, calls, errors, host>>

\* tools.ts 37-44: sharp(imageBuffer) to the requested format
Sharp(r) ==
  LET s == rq[r]
  IN /\ s.pc = "sharp"
     /\ \E ok \in BOOLEAN :
          rq' = [rq EXCEPT ![r] =
                   IF ok
                   THEN [s EXCEPT !.pc = "mkdir",
                                  !.processedBuffer =
                                     SharpEncode(s.imageBuffer, s.format)]
                   ELSE CaptureScreenCatch(Failed(s), <<"sharp failed">>)]
     /\ UNCHANGED <<fs, clock, frontmost, calls, errors, host>>

\* createScreenshotsFolder() swallowing the error of mkdir: the capture goes
\* on to write its file
MkdirSwallowingError(r) ==
  LET s == [rq[r] EXCEPT !.io = @ \cup {"mkdir"}]
  IN /\ rq[r].pc = "mkdir"
     /\ \E ok \in BOOLEAN, now \in Now :
          /\ clock' = now
          /\ rq' = [rq EXCEPT ![r] =
                      [(IF ok THEN s ELSE Failed(s)) EXCEPT
                         !.pc = "writeFile",
                         !.filepath = FilePath(DisplayContext(s.display), now,
                                               s.format)]]
     /\ UNCHANGED <<fs, frontmost, calls, errors, host>>

\* tools.ts 47-50: createScreenshotsFolder(), then the time-stamped file name
Mkdir(r) ==
  LET s == [rq[r] EXCEPT !.io = @ \cup {"mkdir"}]
  IN /\ rq[r].pc = "mkdir"
     /\ \E ok \in BOOLEAN, now \in Now :
          /\ clock' = IF ok THEN now ELSE clock
          /\ rq' = [rq EXCEPT ![r] =
                      IF ok
                      THEN [s EXCEPT !.pc = "writeFile",
                                     !.filepath =
                                        FilePath(DisplayContext(s.display), now,
                                                 s.format)]
                      ELSE CaptureScreenCatch(Failed(s), CreateScreenshotsFolderError)]
     /\ UNCHANGED <<fs, frontmost, calls, errors, host>>

\* tools.ts 53: fs.writeFile(filepath, processedBuffer)
WriteFile(r) ==
  LET s == [rq[r] EXCEPT !.io = @ \cup {"writeFile"}]
  IN /\ rq[r].pc = "writeFile"
     /\ \E ok \in BOOLEAN :
          IF ok
          THEN /\ fs' = Write(fs, s.filepath, s.processedBuffer)
               /\ rq' = [rq EXCEPT ![r] =
                           [s EXCEPT !.pc = "return",
                                     !.wrote = @ \cup {s.filepath}]]
          ELSE /\ fs' = fs
               /\ rq' = [rq EXCEPT ![r] = CaptureScreenCatch(Failed(s), <<"EIO">>)]
     /\ UNCHANGED <<clock, frontmost, calls, errors, host>>

\* tools.ts 55-62: the result, handed to the caller
CaptureScreenResult(s) ==
  [path |-> s.filepath, base64 |-> Base64Encode(s.processedBuffer),
   buffer |-> s.processedBuffer]

Return(r) ==
  /\ rq[r].pc = "return"
  /\ rq' = [rq EXCEPT ![r] = CaptureReturn(rq[r], CaptureScreenResult(rq[r]))]
  /\ UNCHANGED <<fs, clock, frontmost, calls, errors, host>>

(* ------------------------------------------- captureApplicationScreen *)
\* tools.ts 232-237: createScreenshotsFolder(), then the time-stamped name
AppMkdir(r) ==
  LET s == [rq[r] EXCEPT !.io = @ \cup {"mkdir"}]
  IN /\ rq[r].pc = "app_mkdir"
     /\ \E ok \in BOOLEAN, now \in Now :
          /\ clock' = IF ok THEN now ELSE clock
          /\ rq' = [rq EXCEPT ![r] =
                      IF ok
                      THEN [s EXCEPT !.pc = "osascript",
                                     !.filepath =
                                        FilePath(s.applicationName, now,
                                                 s.format)]
                      ELSE CaptureApplicationScreenCatch(
                             Failed(s), CreateScreenshotsFolderError)]
     /\ UNCHANGED <<fs, frontmost, calls, errors, host>>

\* a fallback that drops the format: captureScreen({ display: 0 })
FallbackInDefaultFormat(s, appError) ==
  CaptureScreenEntry([s EXCEPT !.fallback = appError, !.script = ""],
                     0, "png", "")

\* a fallback that keeps the caller's display: captureScreen({ display, format })
FallbackOnRequestedDisplay(s, appError) ==
  CaptureScreenEntry([s EXCEPT !.fallback = appError, !.script = ""],
                     s.argDisplay, s.format, "")

\* a fallback that passes the application name on: captureScreen({ display:
\* 0, format, applicationName }) re-enters the application path
FallbackKeepingApplicationName(s, appError) ==
  CaptureScreenEntry([s EXCEPT !.fallback = appError, !.script = ""],
                     0, s.format, s.applicationName)

\* tools.ts 266-271: the catch of the inner try: captureScreen({ display: 0,
\* format }) is called, and its result returned
Fallback(s, appError) ==
  CaptureScreenEntry([s EXCEPT !.fallback = appError, !.script = ""],
                     0, s.format, "")

\* tools.ts 260: after osascript returned, whatever it printed
AfterScript(s, stdout) ==
  [s EXCEPT !.pc = "settle", !.script = stdout]

\* the script run outside the try block's protection: when it fails the
\* request goes on to the settle delay
OsascriptUnchecked(r) ==
  LET s == [rq[r] EXCEPT !.io = @ \cup {"osascript"}]
  IN /\ rq[r].pc = "osascript"
     /\ \E out \in {"error", "true", "false"}, activated \in BOOLEAN :
          /\ (out # "error") => activated
          /\ frontmost' = IF activated THEN s.applicationName ELSE frontmost
          /\ rq' = [rq EXCEPT ![r] =
                      AfterScript(IF out = "error" THEN Failed(s) ELSE s, out)]
     /\ UNCHANGED <<fs, clock, calls, errors, host>>

\* a script that does not bring the application to the front
OsascriptWithoutActivate(r) ==
  LET s == [rq[r] EXCEPT !.io = @ \cup {"osascript"}]
  IN /\ rq[r].pc = "osascript"
     /\ \E out \in {"error", "true", "false"} :
          rq' = [rq EXCEPT ![r] =
                   IF out = "error"
                   THEN Fallback(Failed(s), "osascript")
                   ELSE AfterScript(s, out)]
     /\ UNCHANGED <<fs, clock, frontmost, calls, errors, host>>

\* tools.ts 240-260: osascript runs the activation and verification script.
\* It exits non-zero when the application or System Events cannot be
\* scripted, and otherwise prints "true" (a window exists) or "false" (none).
Osascript(r) ==
  LET s == [rq[r] EXCEPT !.io = @ \cup {"osascript"}]
  IN /\ rq[r].pc = "osascript"
     /\ \E out \in {"error", "true", "false"}, activated \in BOOLEAN :
          /\ (out # "error") => activated
          /\ frontmost' = IF activated THEN s.applicationName ELSE frontmost
          /\ rq' = [rq EXCEPT ![r] =
                      IF out = "error"
                      THEN Fallback(Failed(s), "osascript")
                      ELSE AfterScript(s, out)]
     /\ UNCHANGED <<fs, clock, calls, errors, host>>

\* tools.ts 262: setTimeout(resolve, 500)
Settle(r) ==
  /\ rq[r].pc = "settle"
  /\ rq' = [rq EXCEPT ![r] = [rq[r] EXCEPT !.pc = "screencapture",
                                          !.io = @ \cup {"settle"}]]
  /\ UNCHANGED <<fs, clock, frontmost, calls, errors, host>>

\* tools.ts 265: screencapture -o -w writes the frontmost window to filepath
Screencapture(r) ==
  LET s == [rq[r] EXCEPT !.io = @ \cup {"screencapture"}]
  IN /\ rq[r].pc = "screencapture"
     /\ \E ok \in BOOLEAN :
          IF ok
          THEN /\ fs' = Write(fs, s.filepath, WindowBytes(frontmost, r))
               /\ rq' = [rq EXCEPT ![r] =
                           [s EXCEPT !.pc = "app_readFile",
                                     !.wrote = @ \cup {s.filepath}]]
          ELSE /\ fs' = fs
               /\ rq' = [rq EXCEPT ![r] = Fallback(Failed(s), "screencapture")]
     /\ UNCHANGED <<clock, frontmost, calls, errors, host>>

\* tools.ts 275: fs.readFile(filepath)
AppReadFile(r) ==
  LET s == [rq[r] EXCEPT !.io = @ \cup {"readFile"}]
  IN /\ rq[r].pc = "app_readFile"
     /\ \E ok \in BOOLEAN :
          /\ ok => s.filepath \in DOMAIN fs
          /\ rq' = [rq EXCEPT ![r] =
                      IF ok
                      THEN [s EXCEPT !.pc = "app_sharp",
                                     !.imageBuffer = fs[s.filepath]]
                      ELSE CaptureApplicationScreenCatch(Failed(s), <<"ENOENT">>)]
     /\ UNCHANGED <<fs, clock, frontmost, calls, errors, host>>

\* tools.ts 278-285: sharp(imageBuffer) to the requested format
AppSharp(r) ==
  LET s == rq[r]
  IN /\ s.pc = "app_sharp"
     /\ \E ok \in BOOLEAN :
          rq' = [rq EXCEPT ![r] =
                   IF ok
                   THEN [s EXCEPT !.pc = "app_writeFile",
                                  !.processedBuffer =
                                     SharpEncode(s.imageBuffer, s.format)]
                   ELSE CaptureApplicationScreenCatch(Failed(s), <<"sharp failed">>)]
     /\ UNCHANGED <<fs, clock, frontmost, calls, errors, host>>

\* tools.ts 288: fs.writeFile(filepath, processedBuffer)
AppWriteFile(r) ==
  LET s == [rq[r] EXCEPT !.io = @ \cup {"writeFile"}]
  IN /\ rq[r].pc = "app_writeFile"
     /\ \E ok \in BOOLEAN :
          IF ok
          THEN /\ fs' = Write(fs, s.filepath, s.processedBuffer)
               /\ rq' = [rq EXCEPT ![r] = [s EXCEPT !.pc = "app_return"]]
          ELSE /\ fs' = fs
               /\ rq' = [rq EXCEPT ![r] =
                           CaptureApplicationScreenCatch(Failed(s), <<"EIO">>)]
     /\ UNCHANGED <<clock, frontmost, calls, errors, host>>

\* tools.ts 290-297: the result, handed to the caller
AppReturn(r) ==
  /\ rq[r].pc = "app_return"
  /\ rq' = [rq EXCEPT ![r] = CaptureReturn(rq[r], CaptureScreenResult(rq[r]))]
  /\ UNCHANGED <<fs, clock, frontmost, calls, errors, host>>

\* the case without its check of the name
CaptureApplicationScreenCaseUnchecked(s, applicationName, format) ==
  CaptureApplicationScreenEntry(s, StrOrEmpty(applicationName), format)

\* index.ts 176-190: the name is required before anything is done
CaptureApplicationScreenCase(s, applicationName, format) ==
  IF ~Truthy(applicationName)
  THEN Fail(s, <<"applicationName is required">>)
  ELSE CaptureApplicationScreenEntry(s, applicationName[1], format)

\* index.ts 175-190
CallCaptureApplicationScreen(r) ==
  /\ CanCallCapture(r)
  /\ \E applicationName \in Opt(AppArgs), format \in Opt(Formats) :
       LET f == OrDefaultStr(format, "png")
           s == [Idle EXCEPT !.tool = "capture_application_screen",
                             !.argFormat = f,
                             !.argApp = StrOrEmpty(applicationName)]
       IN rq' = [rq EXCEPT ![r] =
                   CaptureApplicationScreenCase(s, applicationName, f)]
  /\ calls' = calls + 1
  /\ UNCHANGED <<fs, clock, frontmost, errors, host>>

(* ------------------------------------------------- extractTextFromImage *)
\* tools.ts 109-113: the catch of extractTextFromImage
ExtractTextError(error) == Wrap("Failed to extract text from image", error)

\* what the engine may read off an image, before trim()
RecognizedTexts == {<<" ", "\n">>, <<" ", "H", "I", "\n">>}

IsSpace(c) == c \in {" ", "\n"}

\* String.prototype.trim()
RECURSIVE TrimStart(_)
TrimStart(str) ==
  IF str # <<>> /\ IsSpace(Head(str)) THEN TrimStart(Tail(str)) ELSE str

RECURSIVE TrimEnd(_)
TrimEnd(str) ==
  IF str # <<>> /\ IsSpace(str[Len(str)])
  THEN TrimEnd(SubSeq(str, 1, Len(str) - 1))
  ELSE str

Trim(str) == TrimEnd(TrimStart(str))

\* index.ts 238-245: the response of extract_text
ExtractTextResponse(s, extractedText) ==
  [NoResponse EXCEPT !.text = <<"Text extracted successfully from">>,
                     !.path = s.imagePath, !.body = extractedText]

\* index.ts 265-283: the response of capture_screen_and_extract_text
CaptureScreenAndExtractTextResponse(s, result) ==
  [NoResponse EXCEPT
     !.text = <<"Screenshot captured and text extracted successfully!">>,
     !.path = result.screenshot.path, !.body = result.text,
     !.data = result.screenshot.base64, !.mimeType = "image/png"]

\* The caller's continuation when extractTextFromImage returns its text:
\* index.ts 236-245, or tools.ts 143-146 and index.ts 265-283.
ExtractReturn(s, text) ==
  IF s.tool = "extract_text"
  THEN Finish(s, ExtractTextResponse(s, text))
  ELSE Finish(s, CaptureScreenAndExtractTextResponse(
                   s, [text |-> text, screenshot |-> s.screenshot]))

\* tools.ts 82: createWorker(language), outside the try block.  When it
\* fails the caller holds no handle; whether the engine process it spawned
\* is still running is the library's business, so both outcomes are kept.
CreateWorker(r) ==
  LET s == [rq[r] EXCEPT !.io = @ \cup {"createWorker"}]
  IN /\ rq[r].pc = "createWorker"
     /\ \E ok \in BOOLEAN, spawned \in BOOLEAN :
          /\ ok => spawned
          /\ rq' = [rq EXCEPT ![r] =
                      IF ok
                      THEN [s EXCEPT !.worker = TRUE, !.acquired = @ + 1,
                                     !.pc = IF s.tool = "extract_text"
                                            THEN "ocr_readFile"
                                            ELSE "ocr_sharp",
                                     !.imageBuffer =
                                        IF s.tool = "extract_text"
                                        THEN <<>> ELSE s.input]
                      ELSE Fail([Failed(s) EXCEPT !.acquired =
                                    IF spawned THEN @ + 1 ELSE @],
                                <<"worker load failed">>)]
     /\ UNCHANGED <<fs, clock, frontmost, calls, errors, host>>

\* tools.ts 87-89: fs.readFile(input) when the input is a path
OcrReadFile(r) ==
  LET s == [rq[r] EXCEPT !.io = @ \cup {"readFile"}]
  IN /\ rq[r].pc = "ocr_readFile"
     /\ \E ok \in BOOLEAN :
          /\ ok => s.imagePath \in DOMAIN fs
          /\ rq' = [rq EXCEPT ![r] =
                      IF ok
                      THEN [s EXCEPT !.pc = "ocr_sharp",
                                     !.imageBuffer = fs[s.imagePath]]
                      ELSE [Failed(s) EXCEPT
                              !.pc = "terminate",
                              !.pending = ExtractTextError(<<"ENOENT">>)]]
     /\ UNCHANGED <<fs, clock, frontmost, calls, errors, host>>

\* tools.ts 96-100: the preprocessing for recognition
OcrSharp(r) ==
  LET s == rq[r]
  IN /\ s.pc = "ocr_sharp"
     /\ \E ok \in BOOLEAN :
          rq' = [rq EXCEPT ![r] =
                   IF ok
                   THEN [s EXCEPT !.pc = "recognize",
                                  !.processedBuffer =
                                     SharpPreprocess(s.imageBuffer)]
                   ELSE [Failed(s) EXCEPT
                           !.pc = "terminate",
                           !.pending = ExtractTextError(<<"sharp failed">>)]]
     /\ UNCHANGED <<fs, clock, frontmost, calls, errors, host>>

\* a recognition that removes the request's screenshot when it fails
RecognizeCleaningUp(r) ==
  LET s == rq[r]
  IN /\ s.pc = "recognize"
     /\ \E ok \in BOOLEAN, text \in RecognizedTexts :
          /\ rq' = [rq EXCEPT ![r] =
                      IF ok
                      THEN [s EXCEPT !.pc = "terminate", !.text = Trim(text)]
                      ELSE [Failed(s) EXCEPT
                              !.pc = "terminate",
                              !.pending =
                                 ExtractTextError(<<"recognize failed">>)]]
          /\ fs' = IF ok THEN fs
                   ELSE [q \in DOMAIN fs \ {s.screenshot.path} |-> fs[q]]
     /\ UNCHANGED <<clock, frontmost, calls, errors, host>>

\* tools.ts 103-107: worker.recognize(processedImage), then text.trim()
Recognize(r) ==
  LET s == rq[r]
  IN /\ s.pc = "recognize"
     /\ \E ok \in BOOLEAN, text \in RecognizedTexts :
          rq' = [rq EXCEPT ![r] =
                   IF ok
                   THEN [s EXCEPT !.pc = "terminate", !.text = Trim(text)]
                   ELSE [Failed(s) EXCEPT
                           !.pc = "terminate",
                           !.pending = ExtractTextError(<<"recognize failed">>)]]
     /\ UNCHANGED <<fs, clock, frontmost, calls, errors, host>>

\* tools.ts 114-116: finally { await worker.terminate() }, then the return
\* or the throw the try block ended with.  A failing terminate() replaces
\* either with its own error and leaves the engine running.
Terminate(r) ==
  LET s == [rq[r] EXCEPT !.released = @ + 1, !.worker = FALSE]
  IN /\ rq[r].pc = "terminate"
     /\ \E ok \in BOOLEAN :
          /\ rq' = [rq EXCEPT ![r] =
                      IF ~ok THEN Fail(Failed(s), <<"terminate failed">>)
                      ELSE IF s.pending # <<>> THEN Fail(s, s.pending)
                      ELSE ExtractReturn(s, s.text)]
     /\ UNCHANGED <<fs, clock, frontmost, calls, errors, host>>

\* index.ts 225-236: the path is required before anything is done
ExtractTextCase(s, imagePath) ==
  IF imagePath = <<>>
  THEN Fail(s, <<"imagePath is required">>)
  ELSE [s EXCEPT !.pc = "createWorker", !.imagePath = imagePath[1]]

\* index.ts 224-236
CallExtractText(r) ==
  /\ CanCall(r)
  /\ \E imagePath \in Opt(DOMAIN fs \cup {MissingPath}) :
       LET s == [Idle EXCEPT !.tool = "extract_text"]
       IN rq' = [rq EXCEPT ![r] = ExtractTextCase(s, imagePath)]
  /\ calls' = calls + 1
  /\ UNCHANGED <<fs, clock, frontmost, errors, host>>

\* the capture asked in the lossy format
CaptureScreenAndExtractTextEntryAsJpg(s, display, applicationName) ==
  CaptureScreenEntry(s, display, "jpg", applicationName)

\* index.ts 248-263, tools.ts 134-140: the capture is always asked as png
CaptureScreenAndExtractTextEntry(s, display, applicationName) ==
  CaptureScreenEntry(s, display, "png", applicationName)

CallCaptureScreenAndExtractText(r) ==
  /\ CanCall(r)
  /\ \E display \in Opt(Displays), applicationName \in Opt(AppArgs) :
       LET d == OrDefaultNum(display, 0)
           s == [Idle EXCEPT !.tool = "capture_screen_and_extract_text",
                             !.argDisplay = d,
                             !.argApp = StrOrEmpty(applicationName)]
       IN rq' = [rq EXCEPT ![r] =
                   CaptureScreenAndExtractTextEntry(
                     s, d, StrOrEmpty(applicationName))]
  /\ calls' = calls + 1
  /\ UNCHANGED <<fs, clock, frontmost, errors, host>>

(* ----------------------------------------------- getRunningApplications *)
\* what System Events may report: the names of the foreground processes
ReportedNames ==
  {<<>>, <<"Safari">>, <<"Safari", "Finder">>, <<"Safari", "Safari">>}

\* osascript prints the list joined by ", " and ends the line
RECURSIVE Stdout(_)
Stdout(names) ==
  IF names = <<>> THEN <<"\n">>
  ELSE IF Len(names) = 1 THEN <<names[1], "\n">>
  ELSE <<names[1], ", ">> \o Stdout(Tail(names))

\* String.prototype.split(", "): the pieces between the separators; a
\* piece is the sequence of the tokens it holds
RECURSIVE Split(_, _)
Split(str, piece) ==
  IF str = <<>> THEN <<piece>>
  ELSE IF Head(str) = ", " THEN <<piece>> \o Split(Tail(str), <<>>)
  ELSE Split(Tail(str), Append(piece, Head(str)))

\* tools.ts 198-206: stdout.trim().split(", ").map(trim), then the
\* descriptors { name, pid: index }, indices counted from 0
AppNames(stdout) ==
  LET pieces == Split(Trim(stdout), <<>>)
  IN [i \in 1..Len(pieces) |-> Trim(pieces[i])]

ApplicationInfos(stdout) ==
  LET appNames == AppNames(stdout)
  IN [i \in 1..Len(appNames) |-> [name |-> appNames[i], pid |-> i - 1]]

\* index.ts 212-221: the response of list_applications
ListApplicationsResponse(applications) ==
  [NoResponse EXCEPT
     !.text = <<"Running applications:">>,
     !.body = [i \in 1..Len(applications) |-> applications[i].name]]

\* tools.ts 197: osascript lists the foreground processes
ListExec(r) ==
  LET s == [rq[r] EXCEPT !.io = @ \cup {"osascript"}]
  IN /\ rq[r].pc = "list_exec"
     /\ \E ok \in BOOLEAN, names \in ReportedNames :
          rq' = [rq EXCEPT ![r] =
                   IF ok
                   THEN LET applications == ApplicationInfos(Stdout(names))
                        IN Finish([s EXCEPT !.applications = applications,
                                            !.reported = names],
                                  ListApplicationsResponse(applications))
                   ELSE Fail(Failed(s),
                             Wrap("Failed to get running applications",
                                  <<"osascript failed">>))]
     /\ UNCHANGED <<fs, clock, frontmost, calls, errors, host>>

\* index.ts 207-210
CallListApplications(r) ==
  /\ CanCall(r)
  /\ rq' = [rq EXCEPT ![r] =
              [Idle EXCEPT !.tool = "list_applications", !.pc = "list_exec"]]
  /\ calls' = calls + 1
  /\ UNCHANGED <<fs, clock, frontmost, errors, host>>

\* index.ts 286-287: any other tool name
CallUnknownTool(r) ==
  /\ CanCall(r)
  /\ rq' = [rq EXCEPT ![r] =
              Fail([Idle EXCEPT !.tool = "no_such_tool"],
                   <<"Unknown tool", "no_such_tool">>)]
  /\ calls' = calls + 1
  /\ UNCHANGED <<fs, clock, frontmost, errors, host>>

(* ------------------------------------------------------------- the host *)
\* the host takes the response; the slot serves the next call
Respond(r) ==
  /\ rq[r].pc = "done"
  /\ rq' = [rq EXCEPT ![r] = Idle]
  /\ errors' = IF rq[r].resp.isError THEN errors + 1 ELSE errors
  /\ UNCHANGED <<fs, clock, frontmost, calls, host>>

Next ==
  \E r \in Requests :
       \/ CallCaptureScreen(r) \/ CallCaptureApplicationScreen(r)
       \/ CallListApplications(r) \/ CallExtractText(r)
       \/ CallCaptureScreenAndExtractText(r) \/ CallUnknownTool(r)
       \/ CreateWorker(r) \/ OcrReadFile(r) \/ OcrSharp(r) \/ Recognize(r)
       \/ Terminate(r) \/ ListExec(r)
       \/ AppMkdir(r) \/ Osascript(r) \/ Settle(r) \/ Screencapture(r)
       \/ AppReadFile(r) \/ AppSharp(r) \/ AppWriteFile(r) \/ AppReturn(r)
       \/ Screenshot(r) \/ Sharp(r) \/ Mkdir(r) \/ WriteFile(r) \/ Return(r)
       \/ Respond(r)

Spec == Init /\ [][Next]_vars

\* A step of request r: the await it is at completes or fails.
Step(r) ==
  \/ Screenshot(r) \/ Sharp(r) \/ Mkdir(r) \/ WriteFile(r) \/ Return(r)
  \/ AppMkdir(r) \/ Osascript(r) \/ Settle(r) \/ Screencapture(r)
  \/ AppReadFile(r) \/ AppSharp(r) \/ AppWriteFile(r) \/ AppReturn(r)
  \/ CreateWorker(r) \/ OcrReadFile(r) \/ OcrSharp(r) \/ Recognize(r)
  \/ Terminate(r) \/ ListExec(r)

\* Every external primitive eventually returns or fails, and the event loop
\* then runs the continuation: while a request waits at an await, a step of
\* some request is eventually taken.  This asks less than fairness to each
\* request, which it follows from: a waiting request's step stays enabled
\* until it is taken.
FairSpec == Spec /\ WF_vars(\E r \in Requests : Step(r))

(* ================================================================ claims *)
\* the call asks for the window of an application
AppTargeted(s) ==
  /\ s.tool \in {"capture_application_screen", "capture_screen_and_extract_text"}
  /\ s.argApp # ""

\* the format the call's capture is to be encoded in
RequestedFormat(s) ==
  IF s.tool = "capture_screen_and_extract_text" THEN "png" ELSE s.argFormat

\* the steps of a captureScreen frame
CaptureScreenSteps == {"screenshot", "sharp", "mkdir", "writeFile", "return"}

\* the steps of captureApplicationScreen that follow the window capture
AfterWindowCapture == {"app_readFile", "app_sharp", "app_writeFile", "app_return"}

\* result is what captureScreen gives for display d of request r in format
IsFullScreenResult(result, r, d, format) ==
  /\ result.path.context = DisplayContext(d)
  /\ result.path.ext = format
  /\ result.buffer = SharpEncode(ScreenshotBytes(d, format, r), format)
  /\ result.base64 = Base64Encode(result.buffer)

\* the fallback's captureScreen has written its file and returned: on the
\* fallback path no other step writes a file
FallbackReturned(s) ==
  s.fallback # "none" /\ s.wrote # {} /\ s.pc # "return"

\* the fallback's captureScreen ended without having written its file
FallbackFailed(s) ==
  s.fallback # "none" /\ s.wrote = {} /\ s.pc = "done"

(* C1: when the script or the window capture of captureApplicationScreen   *)
(* fails, captureScreen runs for display 0 in the format first asked for;  *)
(* when it succeeds its CaptureResult is the result, and the caller of     *)
(* capture_application_screen gets it without an error.                    *)
C1_FallbackIsDisplayZeroInRequestedFormat ==
  \A r \in Requests :
    LET s == rq[r]
    IN /\ (s.fallback # "none" /\ s.pc \in CaptureScreenSteps) =>
            s.display = 0 /\ s.format = RequestedFormat(s)
       /\ FallbackReturned(s) =>
            /\ IsFullScreenResult(s.screenshot, r, 0, RequestedFormat(s))
            /\ s.shots = {0}
            /\ (s.tool = "capture_application_screen" =>
                  /\ s.pc = "done"
                  /\ ~s.resp.isError
                  /\ s.resp.path = s.screenshot.path
                  /\ s.resp.data = s.screenshot.base64)

\* a jpg capture of an application whose window capture failed has been
\* answered with the jpg of display 0
C1_Witness ==
  \E r \in Requests :
    /\ rq[r].tool = "capture_application_screen"
    /\ rq[r].pc = "done"
    /\ rq[r].fallback = "screencapture"
    /\ rq[r].argFormat = "jpg"
    /\ ~rq[r].resp.isError
    /\ rq[r].resp.path.context = DisplayContext(0)
    /\ rq[r].resp.path.ext = "jpg"

(* C2: when the script reports that the application has no window, no      *)
(* window capture is invoked, and no result is made from a window capture. *)
C2_NoWindowNoWindowCapture ==
  \A r \in Requests :
    rq[r].script = "false" =>
      /\ "screencapture" \notin rq[r].io
      /\ rq[r].pc \notin AfterWindowCapture

(* C3: an application-targeted capture that reached its application steps  *)
(* ends in an error only when a full-screen capture was tried (and so      *)
(* failed): whichever application step fails, the full-screen capture      *)
(* stands in for it.                                                       *)
C3_ErrorOnlyWhenFullScreenCaptureFailed ==
  \A r \in Requests :
    LET s == rq[r]
    IN (/\ AppTargeted(s)
        /\ s.pc = "done"
        /\ s.screenshot = NoResult
        /\ "osascript" \in s.io) => "screenshot" \in s.io

(* C4: when the application steps failed and the fallback's captureScreen  *)
(* fails too, no CaptureResult is returned: the error leaves               *)
(* captureApplicationScreen, wrapped by both operations, and the caller    *)
(* gets an error response.                                                 *)
C4_FallbackFailurePropagates ==
  \A r \in Requests :
    LET s == rq[r]
    IN FallbackFailed(s) =>
         /\ s.screenshot = NoResult
         /\ s.resp.isError
         /\ s.resp.data = <<>>
         /\ Len(s.thrown) >= 3
         /\ SubSeq(s.thrown, 1, 2) =
              <<"Failed to capture application screen",
                "Failed to capture screen">>
         /\ s.resp.text = <<"Error executing tool", s.tool>> \o s.thrown

\* the script failed, then the screenshot of display 0 failed
C4_Witness ==
  \E r \in Requests :
    /\ rq[r].pc = "done"
    /\ rq[r].fallback = "osascript"
    /\ rq[r].resp.isError
    /\ rq[r].thrown = <<"Failed to capture application screen",
                        "Failed to capture screen", "screenshot failed">>

(* C5: every extractTextFromImage call that has ended released its engine  *)
(* exactly once, and no call that is not in progress holds an engine.      *)
C5_EngineReleasedExactlyOnce ==
  \A r \in Requests :
    LET s == rq[r]
    IN /\ (s.pc = "done" /\ "createWorker" \in s.io) => s.released = 1
       /\ s.pc \in {"idle", "done"} => s.acquired - s.released = 0

(* C6: when a capture operation returns its CaptureResult, the file at     *)
(* result.path holds exactly result.buffer, and result.base64 decodes to   *)
(* result.buffer.                                                          *)
C6_ResultMatchesFile ==
  \A r \in Requests :
    rq[r].pc \in {"return", "app_return"} =>
      LET result == CaptureScreenResult(rq[r])
      IN /\ result.path \in rq[r].wrote
         /\ result.path \in DOMAIN fs
         /\ fs[result.path] = result.buffer
         /\ Len(fs[result.path]) = Len(result.buffer)
         /\ Base64Decode(result.base64) = result.buffer

\* the tool did what it was called for
Succeeded(s) ==
  CASE s.tool \in {"capture_screen", "capture_application_screen"} ->
         s.screenshot # NoResult /\ s.resp.data = s.screenshot.base64
    [] s.tool = "capture_screen_and_extract_text" ->
         s.screenshot # NoResult /\ s.released = 1
    [] s.tool = "extract_text" -> s.released = 1
    [] s.tool = "list_applications" -> "osascript" \in s.io
    [] OTHER -> FALSE

\* the error response for a failure: the tool's name and the reason
IsErrorResponse(s) ==
  /\ s.resp.isError
  /\ s.resp.data = <<>>
  /\ Len(s.resp.text) >= 3
  /\ s.resp.text[2] = s.tool

(* C7 as stated: a call in which any step failed, the recovered failures   *)
(* of the application steps included, is answered with an error response.  *)
C7_AnyFailureIsAnErrorResponse ==
  \A r \in Requests :
    LET s == rq[r]
    IN (s.pc = "done" /\ (s.thrown # <<>> \/ s.fallback # "none")) =>
         IsErrorResponse(s)

(* C7: a call in which a failure reached the handler, that is, any failure *)
(* but one of the application steps that the full-screen fallback made     *)
(* good, is answered with a normal response whose error flag is set and    *)
(* whose text is the tool's name and the reason; every other call is       *)
(* answered without the flag; and the host can take the answer, after      *)
(* which the slot serves the next call.                                    *)
C7_UnrecoveredFailureIsAnErrorResponse ==
  \A r \in Requests :
    LET s == rq[r]
    IN s.pc = "done" =>
         /\ (s.thrown # <<>>) =>
               /\ IsErrorResponse(s)
               /\ s.resp.text = <<"Error executing tool", s.tool>> \o s.thrown
         /\ (s.thrown = <<>>) => ~s.resp.isError /\ Succeeded(s)
         /\ ENABLED Respond(r)

\* a call is answered with an error after the host was given an earlier error
C7_Witness ==
  /\ errors >= 1
  /\ \E r \in Requests :
       /\ rq[r].pc = "done"
       /\ rq[r].thrown # <<>>
       /\ rq[r].resp.isError
       /\ "screenshot" \in rq[r].io

\* the call lacks the parameter its tool requires
MissingRequired(s) ==
  \/ s.tool = "capture_application_screen" /\ s.argApp = ""
  \/ s.tool = "extract_text" /\ s.imagePath = NoPath

(* C8: a capture_application_screen call without applicationName and an    *)
(* extract_text call without imagePath are answered with an error at once, *)
(* with no I/O attempted: no folder made, no process run, no file read or  *)
(* written, no capture, no engine acquired.                                *)
C8_ValidationBeforeAnyIO ==
  \A r \in Requests :
    LET s == rq[r]
    IN MissingRequired(s) =>
         /\ s.pc = "done"
         /\ s.resp.isError
         /\ s.resp.text \in
              {<<"Error executing tool", s.tool, "applicationName is required">>,
               <<"Error executing tool", s.tool, "imagePath is required">>}
         /\ s.io = {} /\ s.shots = {} /\ s.wrote = {}
         /\ s.acquired = 0 /\ s.released = 0
         /\ s.screenshot = NoResult

\* a call with an empty application name has been refused, the disk as it was
C8_Witness ==
  \E r \in Requests :
    /\ rq[r].tool = "capture_application_screen"
    /\ MissingRequired(rq[r])
    /\ rq[r].thrown = <<"applicationName is required">>
    /\ rq[r].io = {}
    /\ DOMAIN fs = {UserPath}

(* C9: a capture call that carries an application name and a display index *)
(* goes by the name: the only display it ever captures is display 0, as    *)
(* the fallback, and the files it writes are named after the application   *)
(* or after display 0, whatever the index was.                             *)
C9_ApplicationNameWins ==
  \A r \in Requests :
    LET s == rq[r]
        paths == (s.wrote \cup {s.filepath, s.screenshot.path}) \ {NoPath}
    IN (s.tool = "capture_screen_and_extract_text" /\ s.argApp # "") =>
         /\ s.shots \subseteq {0}
         /\ (s.shots # {} \/ s.pc \in CaptureScreenSteps) =>
               s.fallback # "none" /\ s.display = 0
         /\ s.pc = "app_mkdir" => s.io = {}
         /\ \A p \in paths : p.context \in {s.argApp, DisplayContext(0)}

\* a call for Safari's window on display 1 fell back, and captured display 0
C9_Witness ==
  \E r \in Requests :
    /\ rq[r].tool = "capture_screen_and_extract_text"
    /\ rq[r].argApp = "Safari"
    /\ rq[r].argDisplay = 1
    /\ rq[r].pc = "done"
    /\ ~rq[r].resp.isError
    /\ rq[r].fallback # "none"
    /\ rq[r].shots = {0}
    /\ rq[r].resp.path.context = DisplayContext(0)

(* C10: captureScreenAndExtractText captures and writes png on every path, *)
(* hands the recognizer the bytes of the capture it returned, and its      *)
(* response declares the image as image/png.                               *)
C10_CombinedToolIsPng ==
  \A r \in Requests :
    LET s == rq[r]
    IN s.tool = "capture_screen_and_extract_text" =>
         /\ \A p \in s.wrote : p.ext = "png" /\ fs[p][1] = Magic("png")
         /\ s.screenshot # NoResult =>
               /\ s.screenshot.path \in s.wrote
               /\ s.screenshot.buffer[1] = Magic("png")
               /\ s.input = s.screenshot.buffer
         /\ s.pc = "ocr_sharp" => s.imageBuffer = s.screenshot.buffer
         /\ s.pc = "recognize" =>
               s.processedBuffer = SharpPreprocess(s.screenshot.buffer)
         /\ (s.pc = "done" /\ ~s.resp.isError) =>
               /\ s.resp.mimeType = "image/png"
               /\ s.resp.path = s.screenshot.path
               /\ Base64Decode(s.resp.data) = s.screenshot.buffer

\* the window of an application was captured and its text read
C10_Witness ==
  \E r \in Requests :
    /\ rq[r].tool = "capture_screen_and_extract_text"
    /\ rq[r].pc = "done"
    /\ ~rq[r].resp.isError
    /\ rq[r].argApp # ""
    /\ rq[r].fallback = "none"
    /\ rq[r].resp.body = <<"H", "I">>
    /\ rq[r].resp.mimeType = "image/png"

\* requests r1 and r2 serve capture_screen calls for different displays
DifferentDisplays(r1, r2) ==
  /\ r1 # r2
  /\ rq[r1].tool = "capture_screen" /\ rq[r2].tool = "capture_screen"
  /\ rq[r1].argDisplay # rq[r2].argDisplay

(* C11: two capture_screen calls for different displays that are served    *)
(* together each get their own file: the paths differ, each is named after *)
(* its own call's display, and each file holds the bytes its own call      *)
(* captured.                                                               *)
C11_DifferentDisplaysDifferentFiles ==
  \A r1, r2 \in Requests :
    DifferentDisplays(r1, r2) =>
      LET s == rq[r1]
          t == rq[r2]
          own == SharpEncode(ScreenshotBytes(s.argDisplay, s.argFormat, r1),
                             s.argFormat)
      IN /\ s.filepath # NoPath =>
              /\ s.filepath.context = DisplayContext(s.argDisplay)
              /\ s.filepath # t.filepath
              /\ s.filepath \notin t.wrote
         /\ \A p \in s.wrote :
              /\ p.context = DisplayContext(s.argDisplay)
              /\ p \notin t.wrote
              /\ fs[p] = own
         /\ (s.pc = "done" /\ ~s.resp.isError) =>
              /\ s.resp.path \in s.wrote
              /\ s.resp.path # t.resp.path
              /\ Base64Decode(s.resp.data) = fs[s.resp.path]

\* both calls, for displays 0 and 1 in the same format and stamped in the
\* same millisecond, have been answered with their files
C11_Witness ==
  \E r1, r2 \in Requests :
    /\ DifferentDisplays(r1, r2)
    /\ rq[r1].pc = "done" /\ rq[r2].pc = "done"
    /\ ~rq[r1].resp.isError /\ ~rq[r2].resp.isError
    /\ rq[r1].argFormat = rq[r2].argFormat
    /\ rq[r1].resp.path.timestamp = rq[r2].resp.path.timestamp
    /\ fs[rq[r1].resp.path] # fs[rq[r2].resp.path]

\* the folder could not be created for the request
FolderFailed(s) == s.failed \cap {"mkdir", "app_mkdir"} # {}

(* C12: when the screenshots folder cannot be created, the capture (full   *)
(* screen, application window or the combined tool's) ends in an error     *)
(* that names the folder, returns no result and has written no file.       *)
C12_NoFolderNoFile ==
  \A r \in Requests :
    LET s == rq[r]
    IN FolderFailed(s) =>
         /\ s.pc = "done"
         /\ s.resp.isError
         /\ \E i \in 1..Len(s.thrown) :
              s.thrown[i] = "Failed to create screenshots folder"
         /\ s.screenshot = NoResult
         /\ s.wrote = {}
         /\ "writeFile" \notin s.io

\* a combined capture and recognition of an application's window was
\* refused for want of the folder, the disk as it was
C12_Witness ==
  \E r \in Requests :
    /\ rq[r].tool = "capture_screen_and_extract_text"
    /\ rq[r].failed = {"app_mkdir"}
    /\ rq[r].resp.isError
    /\ rq[r].io = {"mkdir"}
    /\ DOMAIN fs = {UserPath}

\* the number of distinct names in a reported list
DistinctNames(names) == Cardinality({names[i] : i \in 1..Len(names)})

(* C13: getRunningApplications returns as many elements as the OS query    *)
(* reported distinct application names, and the identifier of the i-th     *)
(* element is its position, counted from 0.                                *)
C13_OneElementPerDistinctName ==
  \A r \in Requests :
    LET s == rq[r]
    IN (s.tool = "list_applications" /\ s.pc = "done" /\ ~s.resp.isError) =>
         /\ Len(s.applications) = DistinctNames(s.reported)
         /\ \A i \in 1..Len(s.applications) : s.applications[i].pid = i - 1
         /\ Len(s.resp.body) = Len(s.applications)

(* C14: within a capture request the folder is ensured before the capture  *)
(* primitive is invoked, the file is written only after both, and a result *)
(* is returned only after the file was written.                            *)
C14_FolderThenCaptureThenWrite ==
  \A r \in Requests :
    LET s == rq[r]
        captured == "screenshot" \in s.io \/ "screencapture" \in s.io
    IN /\ captured => "mkdir" \in s.io
       /\ "writeFile" \in s.io => "mkdir" \in s.io /\ captured
       /\ s.screenshot # NoResult => "writeFile" \in s.io

(* C15: in an application-targeted capture the window capture is invoked   *)
(* only after the script has completed without failure and the settle      *)
(* delay has then elapsed; when the script fails, neither the delay nor    *)
(* the window capture takes place.                                         *)
C15_ActivateVerifySettleCapture ==
  \A r \in Requests :
    LET s == rq[r]
        scripted == "osascript" \in s.io /\ "osascript" \notin s.failed
    IN /\ s.pc = "settle" =>
            /\ scripted /\ s.script \in {"true", "false"}
            /\ "settle" \notin s.io /\ "screencapture" \notin s.io
       /\ s.pc = "screencapture" =>
            /\ scripted /\ s.script \in {"true", "false"}
            /\ "settle" \in s.io /\ "screencapture" \notin s.io
       /\ "settle" \in s.io => scripted
       /\ "screencapture" \in s.io => scripted /\ "settle" \in s.io
       /\ "osascript" \in s.failed =>
            /\ s.fallback = "osascript"
            /\ "settle" \notin s.io /\ "screencapture" \notin s.io

\* the window capture has run, after the script and the delay, with the
\* application frontmost
C15_Witness ==
  \E r \in Requests :
    /\ rq[r].pc = "app_readFile"
    /\ rq[r].script = "true"
    /\ rq[r].io = {"mkdir", "osascript", "settle", "screencapture"}
    /\ frontmost = rq[r].applicationName
    /\ fs[rq[r].filepath] = WindowBytes(rq[r].applicationName, r)

\* the steps that write a file, each to the request's filepath
WritingSteps == {"writeFile", "screencapture", "app_writeFile"}

(* C16: no write of this system targets a path that already holds a file:  *)
(* whenever a request is about to write, its path holds no file yet.       *)
C16_WritesTargetFreshPaths ==
  \A r \in Requests :
    rq[r].pc \in WritingSteps => rq[r].filepath \notin DOMAIN fs

\* the request returned a window capture that shows application app
ReturnedWindowOf(s, app) ==
  /\ AppTargeted(s)
  /\ s.fallback = "none"
  /\ s.screenshot # NoResult
  /\ s.screenshot.buffer[2] = WindowByte(app)

(* C17: application-targeted captures race on the frontmost window.  A     *)
(* request is answered with the window of an application other than the    *)
(* one it named only when the host overlaps it with another call, which    *)
(* activated its own application between this request's activation and     *)
(* its window capture; the witness is that interleaving.                   *)
C17_WrongWindowOnlyByOverlap ==
  \A r \in Requests :
    \A app \in Apps :
      (ReturnedWindowOf(rq[r], app) /\ app # rq[r].argApp) =>
        /\ host = "concurrent"
        /\ calls >= 2
        /\ rq[r].screenshot.path.context = rq[r].argApp
        /\ rq[r].screenshot.buffer[3] = r

\* the captures of Safari and of Finder have both been answered without
\* error, and the one for Safari holds Finder's window
C17_Witness ==
  \E r1, r2 \in Requests :
    /\ r1 # r2
    /\ rq[r1].tool = "capture_application_screen" /\ rq[r1].argApp = "Safari"
    /\ rq[r2].tool = "capture_application_screen" /\ rq[r2].argApp = "Finder"
    /\ rq[r1].pc = "done" /\ ~rq[r1].resp.isError
    /\ rq[r2].pc = "done" /\ ~rq[r2].resp.isError
    /\ ReturnedWindowOf(rq[r1], "Finder")
    /\ ReturnedWindowOf(rq[r2], "Finder")
    /\ rq[r1].resp.path.context = "Safari"

\* the contextual texts the operations put in front of a failure
StageContexts ==
  {"Failed to capture screen", "Failed to capture application screen",
   "Failed to create screenshots folder", "Failed to extract text from image",
   "Failed to get running applications"}

(* C18: every failure of a step that reaches the handler carries, in front *)
(* of its reason, the contextual text of the stage that failed; validation *)
(* failures, which no step raised, are exempt.                             *)
C18_FailuresAreWrapped ==
  \A r \in Requests :
    LET s == rq[r]
    IN (s.pc = "done" /\ s.thrown # <<>> /\ s.failed # {}) =>
         /\ Len(s.thrown) >= 2
         /\ s.thrown[1] \in StageContexts

\* the steps of captureApplicationScreen before its fallback or its return
ApplicationSteps ==
  {"app_mkdir", "osascript", "settle", "screencapture"} \cup AfterWindowCapture

\* the request is serving a call that has not been answered
InProgress(r) == rq[r].pc \notin {"idle", "done"}

(* C19: when every primitive eventually returns or fails, every call in    *)
(* progress is eventually answered; the answer, once made, stays as it is  *)
(* until the host takes it; and a request that has entered the fallback    *)
(* is never again in the application path, so it enters it at most once.   *)
C19_EveryCallIsAnsweredOnce ==
  /\ \A r \in Requests : InProgress(r) ~> (rq[r].pc = "done")
  /\ [][\A r \in Requests :
          rq[r].pc = "done" => (rq'[r] = rq[r] \/ rq'[r] = Idle)]_vars
  /\ [](\A r \in Requests :
          rq[r].fallback # "none" => rq[r].pc \notin ApplicationSteps)

\* a combined call whose window capture failed has fallen back, recognized
\* the text and been answered
C19_Witness ==
  \E r \in Requests :
    /\ rq[r].tool = "capture_screen_and_extract_text"
    /\ rq[r].pc = "done"
    /\ rq[r].failed = {"screencapture"}
    /\ rq[r].fallback = "screencapture"
    /\ rq[r].released = 1
    /\ ~rq[r].resp.isError

\* the steps of captureApplicationScreen outside its inner try block
OutsideInnerTry == {"app_mkdir", "app_readFile", "app_sharp", "app_writeFile"}

(* C20: the fallback is entered only when the script or the window capture *)
(* failed; when the folder cannot be made before the activation, or the    *)
(* captured file cannot be read back, re-encoded or rewritten, the request *)
(* ends in an error and no full-screen capture is attempted.               *)
C20_FallbackOnlyFromInnerTry ==
  \A r \in Requests :
    LET s == rq[r]
    IN /\ s.fallback # "none" =>
            s.fallback \in {"osascript", "screencapture"} \cap s.failed
       /\ (AppTargeted(s) /\ "screenshot" \in s.io) => s.fallback # "none"
       /\ s.failed \cap OutsideInnerTry # {} =>
            /\ s.pc = "done"
            /\ s.resp.isError
            /\ s.thrown[1] = "Failed to capture application screen"
            /\ s.fallback = "none"
            /\ "screenshot" \notin s.io /\ s.shots = {}
            /\ s.screenshot = NoResult

\* the window was captured, the file could not be read back, and the call
\* was answered with an error without a capture of the full screen
C20_Witness ==
  \E r \in Requests :
    /\ rq[r].tool = "capture_application_screen"
    /\ rq[r].pc = "done"
    /\ rq[r].failed = {"app_readFile"}
    /\ rq[r].thrown = <<"Failed to capture application screen", "ENOENT">>
    /\ rq[r].io = {"mkdir", "osascript", "settle", "screencapture", "readFile"}
    /\ rq[r].wrote # {}

\* the steps of extractTextFromImage
RecognitionSteps ==
  {"createWorker", "ocr_readFile", "ocr_sharp", "recognize", "terminate"}

(* C21: no step removes a file from the disk.  In the combined tool the    *)
(* screenshot is on disk before the engine is acquired, so when the engine *)
(* cannot be loaded or the recognition fails, the caller gets an error     *)
(* response and the file that request wrote is still there.                *)
C21_WrittenFilesStay ==
  /\ [][DOMAIN fs \subseteq DOMAIN fs']_vars
  /\ [](\A r \in Requests :
          LET s == rq[r]
          IN /\ s.wrote \subseteq DOMAIN fs
             /\ (s.tool = "capture_screen_and_extract_text"
                 /\ (s.pc \in RecognitionSteps \/ s.acquired > 0)) =>
                  /\ s.screenshot # NoResult
                  /\ s.screenshot.path \in s.wrote
             /\ (s.tool = "capture_screen_and_extract_text"
                 /\ s.pc = "done"
                 /\ s.failed \cap RecognitionSteps # {}) =>
                  /\ s.resp.isError
                  /\ s.resp.data = <<>>
                  /\ s.screenshot.path \in DOMAIN fs
                  /\ IsImage(fs[s.screenshot.path]))

\* a combined call whose recognition failed has been answered with an
\* error, its screenshot on disk
C21_Witness ==
  \E r \in Requests :
    /\ rq[r].tool = "capture_screen_and_extract_text"
    /\ rq[r].pc = "done"
    /\ rq[r].failed = {"recognize"}
    /\ rq[r].resp.isError
    /\ rq[r].released = 1
    /\ rq[r].screenshot.path \in DOMAIN fs
    /\ fs[rq[r].screenshot.path] = rq[r].screenshot.buffer

====
